---- MODULE Spec2Model ----
(***************************************************************************)
(* Model of the Pololu servo-controller driver: the serial transport       *)
(* (SerialCom.cpp, POSIX branch), the connection and its five wire         *)
(* commands (Pololu.cpp) and the servo classes (ServoMotor.cpp).           *)
(*                                                                         *)
(* The process' file-descriptor table is part of the state, because the    *)
(* transport handle port_ is a descriptor number and close()/open() act on *)
(* that table.  Every outcome the operating system decides (open, tcflush, *)
(* tcgetattr, tcsetattr, write, read) is an input of the action.           *)
(*                                                                         *)
(* Exceptions are values [cls, cause]: cls is the C++ type thrown, cause   *)
(* the original message as far as the handlers keep it ("Unknown" when a   *)
(* catch(...) drops it).                                                   *)
(***************************************************************************)
EXTENDS Integers, Sequences, FiniteSets, TLC

\* ---------------------------------------------------------------- bounds
\* Highest descriptor number of the modelled descriptor table.
MaxFd == 3

\* ------------------------------------------------------- program constants
maxDeg == 90
conFactorDegToPos == 10
conFactorMyToPos == 4
maxRadTimes100 == 157

\* ------------------------------------------------------------ input sets
PortNames == {"/dev/ttyACM0", "/dev/ttyACM1"}
\* (port name, baud rate) handed to initConnection.
ConnParams == { <<"/dev/ttyACM0", 9600>>, <<"/dev/ttyACM1", 19200>> }

\* (servo number, neutral position, delta) of the servo under test.
Calibrations ==
    { <<3, 6000, 3600>>, <<0, 7500, 1500>>, <<127, 100, 50>>,
      <<128, 15000, 3600>>, <<1, 1000, 2000>>, <<2, 40000, 30000>> }

\* Bytes the controller may answer with.
SampleBytes == {0, 1, 255}

\* Outcomes the operating system can give openSerialCom.
OpenEnvs == {"ok", "open_fail", "flush_fail", "getattr_fail", "setattr_fail"}

U16(x) == x % 65536
U8(x) == x % 256

VARIABLES
    isComPortOpen_,     \* Pololu::isComPortOpen_
    port_,              \* SerialCom::port_ (descriptor number, -1 after a failed open)
    portName_,          \* SerialCom::portName_
    baudRate_,          \* SerialCom::baudRate_
    fdtab,              \* the process' descriptor table: fd -> "free" | "std" | port name
    servoNmb_,          \* servo number of the servo object
    neutralPosition_,   \* neutral (starting) position of the servo object
    delta_,             \* delta of the servo object
    pololuAlive,        \* the Pololu object exists (it has not been deleted)
    last,               \* the last call: operation, arguments, exception, result, transport calls
    reinitPending       \* history: initConnection was called and no openConnection succeeded since

vars == << isComPortOpen_, port_, portName_, baudRate_, fdtab,
           servoNmb_, neutralPosition_, delta_, pololuAlive, last, reinitPending >>

conn == << isComPortOpen_, port_, portName_, baudRate_, fdtab, pololuAlive >>
servo == << servoNmb_, neutralPosition_, delta_ >>

\* ------------------------------------------------------------ exceptions
NoErr == [cls |-> "none", cause |-> "none"]
Exc(c, m) == [cls |-> c, cause |-> m]

\* A transport call: function, descriptor, return value, bytes moved, and
\* the number of bytes asked for (0 for the calls that move none).
Call(f, fd, r, b) == [fn |-> f, fd |-> fd, ret |-> r, bytes |-> b, size |-> 0]


\* -------------------------------------------------- the descriptor table
Fds == 0..MaxFd
IsOpenFd(tab, fd) == fd \in Fds /\ tab[fd] # "free"

\* close(2): releases the descriptor whatever it refers to; -1 (EBADF) otherwise.
SysClose(tab, fd) ==
    IF IsOpenFd(tab, fd)
    THEN [tab |-> [tab EXCEPT ![fd] = "free"], call |-> Call("close", fd, 0, <<>>)]
    ELSE [tab |-> tab, call |-> Call("close", fd, -1, <<>>)]

FreeFds(tab) == {fd \in Fds : tab[fd] = "free"}
LowestFree(tab) == CHOOSE fd \in FreeFds(tab) : \A g \in FreeFds(tab) : fd <= g

\* open(2): the lowest free descriptor, or -1 when the device cannot be opened
\* or the table is full.
SysOpen(tab, name, ok) ==
    IF ok /\ FreeFds(tab) # {}
    THEN LET fd == LowestFree(tab)
         IN  [tab |-> [tab EXCEPT ![fd] = name], fd |-> fd,
              call |-> Call("open", fd, fd, <<>>)]
    ELSE [tab |-> tab, fd |-> -1, call |-> Call("open", -1, -1, <<>>)]

\* Descriptors that refer to a serial device.
DeviceFds(tab) == {fd \in Fds : tab[fd] \in PortNames}

\* The record of one call of the API: the operation, its arguments, the
\* outcome env the operating system gave to an open, the exception thrown,
\* the value returned, the transport calls made, further arguments or the
\* values returned by reference (more), and the open flag and the device
\* descriptors held when the call was made.
Done(op, name, sv, arg, env, err, ret, calls) ==
    [op |-> op, name |-> name, servo |-> sv, arg |-> arg, env |-> env,
     err |-> err, ret |-> ret, calls |-> calls, more |-> <<>>,
     before |-> [open |-> isComPortOpen_, held |-> DeviceFds(fdtab)]]

\* ------------------------------------------------------------- SerialCom
\* SerialCom::closeSerialCom: return close(port_); never throws.
closeSerialCom(tab, port) == SysClose(tab, port)

\* SerialCom::openSerialCom that ignores the results of tcflush, tcgetattr and
\* tcsetattr.
openSerialCom_unchecked(tab, port, name, env) ==
    LET c == SysClose(tab, port)
        o == SysOpen(c.tab, name, env # "open_fail")
        flush == Call("tcflush", o.fd, IF env = "flush_fail" THEN -1 ELSE 0, <<>>)
        getat == Call("tcgetattr", o.fd, IF env = "getattr_fail" THEN -1 ELSE 0, <<>>)
        setat == Call("tcsetattr", o.fd, IF env = "setattr_fail" THEN -1 ELSE 0, <<>>)
    IN  IF o.fd = -1
        THEN [tab |-> o.tab, port |-> -1, err |-> Exc("string", "OpenFailed"),
              calls |-> <<c.call, o.call>>]
        ELSE [tab |-> o.tab, port |-> o.fd, err |-> NoErr,
              calls |-> <<c.call, o.call, flush, getat, setat>>]

\* SerialCom::openSerialCom under the outcome env of the operating system.
\* The close(port_) written after each throw is unreachable.
openSerialCom(tab, port, name, env) ==
    LET c == SysClose(tab, port)
        o == SysOpen(c.tab, name, env # "open_fail")
        flush == Call("tcflush", o.fd, IF env = "flush_fail" THEN -1 ELSE 0, <<>>)
        getat == Call("tcgetattr", o.fd, IF env = "getattr_fail" THEN -1 ELSE 0, <<>>)
        setat == Call("tcsetattr", o.fd, IF env = "setattr_fail" THEN -1 ELSE 0, <<>>)
    IN  IF o.fd = -1
        THEN [tab |-> o.tab, port |-> -1, err |-> Exc("string", "OpenFailed"),
              calls |-> <<c.call, o.call>>]
        ELSE IF env = "flush_fail"
        THEN [tab |-> o.tab, port |-> o.fd, err |-> Exc("string", "FlushFailed"),
              calls |-> <<c.call, o.call, flush>>]
        ELSE IF env = "getattr_fail"
        THEN [tab |-> o.tab, port |-> o.fd, err |-> Exc("string", "GetAttrFailed"),
              calls |-> <<c.call, o.call, flush, getat>>]
        ELSE IF env = "setattr_fail"
        THEN [tab |-> o.tab, port |-> o.fd, err |-> Exc("string", "SetAttrFailed"),
              calls |-> <<c.call, o.call, flush, getat, setat>>]
        ELSE [tab |-> o.tab, port |-> o.fd, err |-> NoErr,
              calls |-> <<c.call, o.call, flush, getat, setat>>]

\* SerialCom::initSerialCom: close(port_), then the new name and baud rate.
initSerialCom(tab, port) == SysClose(tab, port)

\* --------------------------------------------------- Pololu: connection
\* Pololu::openConnection that opens without releasing the descriptor held.
openConnection_leaky(env) ==
    LET o == SysOpen(fdtab, portName_, env # "open_fail")
        ok == o.fd # -1 /\ env = "ok"
    IN  /\ pololuAlive
        /\ fdtab' = o.tab
        /\ port_' = o.fd
        /\ isComPortOpen_' = ok
        /\ reinitPending' = (reinitPending /\ ~ok)
        /\ UNCHANGED << portName_, baudRate_, servo, pololuAlive >>
        /\ last' = Done("openConnection", portName_, 0, 0, env,
                        IF ok THEN NoErr ELSE Exc("ExceptionPololu", "OpenFailed"),
                        0, <<o.call>>)

\* Pololu::openConnection
openConnection(env) ==
    LET c == closeSerialCom(fdtab, port_)
        o == openSerialCom(c.tab, port_, portName_, env)
        ok == o.err = NoErr
    IN  /\ pololuAlive
        /\ fdtab' = o.tab
        /\ port_' = o.port
        /\ isComPortOpen_' = ok
        /\ reinitPending' = (reinitPending /\ ~ok)
        /\ UNCHANGED << portName_, baudRate_, servo, pololuAlive >>
        /\ last' = Done("openConnection", portName_, 0, 0, env,
                        IF ok THEN NoErr ELSE Exc("ExceptionPololu", o.err.cause),
                        0, <<c.call>> \o o.calls)

\* Pololu::closeConnection over a closeSerialCom that throws when close fails.
closeConnection_throwing ==
    LET c == closeSerialCom(fdtab, port_)
    IN  /\ pololuAlive
        /\ fdtab' = c.tab
        /\ isComPortOpen_' = FALSE
        /\ UNCHANGED << port_, portName_, baudRate_, servo, pololuAlive, reinitPending >>
        /\ last' = Done("closeConnection", portName_, 0, 0, "",
                        IF c.call.ret = -1
                        THEN Exc("ExceptionPololu", "CloseFailed") ELSE NoErr,
                        0, <<c.call>>)

\* Pololu::closeConnection
closeConnection ==
    LET c == closeSerialCom(fdtab, port_)
    IN  /\ pololuAlive
        /\ fdtab' = c.tab
        /\ isComPortOpen_' = FALSE
        /\ UNCHANGED << port_, portName_, baudRate_, servo, pololuAlive, reinitPending >>
        /\ last' = Done("closeConnection", portName_, 0, 0, "", NoErr, 0, <<c.call>>)

\* Pololu::initConnection that replaces the parameters without closing.
initConnection_keepsHandle(name, baud) ==
    /\ pololuAlive
    /\ portName_' = name
    /\ baudRate_' = baud
    /\ reinitPending' = TRUE
    /\ UNCHANGED << isComPortOpen_, port_, fdtab, servo, pololuAlive >>
    /\ last' = Done("initConnection", name, 0, baud, "", NoErr, 0, <<>>)

\* Pololu::initConnection
initConnection(name, baud) ==
    LET c == closeSerialCom(fdtab, port_)
        i == initSerialCom(c.tab, port_)
    IN  /\ pololuAlive
        /\ fdtab' = i.tab
        /\ isComPortOpen_' = FALSE
        /\ portName_' = name
        /\ baudRate_' = baud
        /\ reinitPending' = TRUE
        /\ UNCHANGED << port_, servo, pololuAlive >>
        /\ last' = Done("initConnection", name, 0, baud, "", NoErr, 0, <<c.call, i.call>>)

\* Pololu::~Pololu that frees the objects without closing the descriptor.
destroyPololu_noClose ==
    /\ pololuAlive
    /\ pololuAlive' = FALSE
    /\ isComPortOpen_' = FALSE
    /\ UNCHANGED << port_, portName_, baudRate_, fdtab, servo, reinitPending >>
    /\ last' = Done("~Pololu", portName_, 0, 0, "", NoErr, 0, <<>>)

\* Pololu::~Pololu: closeSerialCom, then delete serialCom_, whose destructor
\* SerialCom::~SerialCom calls closeSerialCom again; isComPortOpen_ = false.
destroyPololu ==
    LET c == closeSerialCom(fdtab, port_)
        d == closeSerialCom(c.tab, port_)
    IN  /\ pololuAlive
        /\ pololuAlive' = FALSE
        /\ fdtab' = d.tab
        /\ isComPortOpen_' = FALSE
        /\ UNCHANGED << port_, portName_, baudRate_, servo, reinitPending >>
        /\ last' = Done("~Pololu", portName_, 0, 0, "", NoErr, 0, <<c.call, d.call>>)

\* ------------------------------------------------ SerialCom: transactions
\* What read(2) can give for a request of size bytes: -1, or n <= size bytes.
ReadEnvs(size) ==
    { [n |-> -1, bytes |-> <<>>], [n |-> 0, bytes |-> <<>>] }
    \cup { [n |-> 1, bytes |-> <<b>>] : b \in SampleBytes }
    \cup ( IF size >= 2
           THEN { [n |-> 2, bytes |-> <<b0, b1>>] : b0 \in SampleBytes, b1 \in SampleBytes }
           ELSE {} )

\* SerialCom::writeSerialCom that reads the response whatever write returned.
writeSerialCom_readsAnyway(command, sizeResponse, wOk, r) ==
    LET wret == IF wOk /\ IsOpenFd(fdtab, port_) THEN Len(command) ELSE -1
        w == [Call("write", port_, wret, command) EXCEPT !.size = Len(command)]
        rd == [Call("read", port_, r.n, r.bytes) EXCEPT !.size = sizeResponse]
    IN  IF sizeResponse > 0
        THEN IF wret = -1 \/ r.n # sizeResponse
             THEN [err |-> Exc("string", IF wret = -1 THEN "WriteFailed" ELSE "ReadFailed"),
                   calls |-> <<w, rd>>, response |-> <<>>]
             ELSE [err |-> NoErr, calls |-> <<w, rd>>, response |-> r.bytes]
        ELSE IF wret = -1
        THEN [err |-> Exc("string", "WriteFailed"), calls |-> <<w>>, response |-> <<>>]
        ELSE [err |-> NoErr, calls |-> <<w>>, response |-> <<>>]

\* SerialCom::writeSerialCom: write the command; when a response is expected,
\* read it and require exactly sizeResponse bytes.  wOk: the write succeeds
\* (it never does on a descriptor that is not open); r: what read gives.
writeSerialCom(command, sizeResponse, wOk, r) ==
    LET wret == IF wOk /\ IsOpenFd(fdtab, port_) THEN Len(command) ELSE -1
        w == [Call("write", port_, wret, command) EXCEPT !.size = Len(command)]
        rd == [Call("read", port_, r.n, r.bytes) EXCEPT !.size = sizeResponse]
    IN  IF wret = -1
        THEN [err |-> Exc("string", "WriteFailed"), calls |-> <<w>>, response |-> <<>>]
        ELSE IF sizeResponse > 0
        THEN IF r.n # sizeResponse
             THEN [err |-> Exc("string", "ReadFailed"), calls |-> <<w, rd>>,
                   response |-> <<>>]
             ELSE [err |-> NoErr, calls |-> <<w, rd>>, response |-> r.bytes]
        ELSE [err |-> NoErr, calls |-> <<w>>, response |-> <<>>]

NoRead == [n |-> 0, bytes |-> <<>>]

\* What the operating system does with one transaction that expects size
\* bytes: the write fails, or it succeeds and read gives r.
TransactEnvs(size) ==
    { [wOk |-> FALSE, r |-> NoRead] }
    \cup { [wOk |-> TRUE, r |-> r] : r \in ReadEnvs(size) }

\* ----------------------------------------------------- Pololu: commands
PortClosed == [err |-> Exc("ExceptionPololu", "PortClosed"), ret |-> 0, calls |-> <<>>]

\* The set command with the servo counted from 1 on the wire.
SetCommand_oneBased(opcode, sv, value) ==
    << opcode, U8(sv + 1), value % 128, (value \div 128) % 128 >>

\* The 4-byte command of the three set commands: opcode, servo, low 7 bits,
\* high 7 bits.
SetCommand(opcode, sv, value) ==
    << opcode, U8(sv), value % 128, (value \div 128) % 128 >>

\* Pololu::setPosition without the test of isComPortOpen_.
setPosition_unguarded(sv, goToPosition, wOk) ==
    LET t == writeSerialCom(SetCommand(132, sv, goToPosition), 0, wOk, NoRead)
    IN  [err |-> t.err, ret |-> IF t.err = NoErr THEN goToPosition ELSE 0,
         calls |-> t.calls]

\* Pololu::setPosition
setPosition(sv, goToPosition, wOk) ==
    IF ~isComPortOpen_ THEN PortClosed
    ELSE LET t == writeSerialCom(SetCommand(132, sv, goToPosition), 0, wOk, NoRead)
         IN  [err |-> t.err, ret |-> IF t.err = NoErr THEN goToPosition ELSE 0,
              calls |-> t.calls]

\* Pololu::setSpeed
setSpeed(sv, goToSpeed, wOk) ==
    IF ~isComPortOpen_ THEN PortClosed
    ELSE LET t == writeSerialCom(SetCommand(135, sv, goToSpeed), 0, wOk, NoRead)
         IN  [err |-> t.err, ret |-> IF t.err = NoErr THEN 1 ELSE 0, calls |-> t.calls]

\* Pololu::setAcceleration
setAcceleration(sv, goToAcceleration, wOk) ==
    IF ~isComPortOpen_ THEN PortClosed
    ELSE LET t == writeSerialCom(SetCommand(137, sv, goToAcceleration), 0, wOk, NoRead)
         IN  [err |-> t.err, ret |-> IF t.err = NoErr THEN 1 ELSE 0, calls |-> t.calls]

\* Pololu::getPosition taking the first response byte as the high byte.
getPosition_bigEndian(sv, wOk, r) ==
    IF ~isComPortOpen_ THEN PortClosed
    ELSE LET t == writeSerialCom(<<144, U8(sv)>>, 2, wOk, r)
         IN  [err |-> t.err,
              ret |-> IF t.err = NoErr
                      THEN U16(256 * t.response[1] + t.response[2]) ELSE 0,
              calls |-> t.calls]

\* Pololu::getPosition recombining the response as two 7-bit groups.
getPosition_sevenBit(sv, wOk, r) ==
    IF ~isComPortOpen_ THEN PortClosed
    ELSE LET t == writeSerialCom(<<144, U8(sv)>>, 2, wOk, r)
         IN  [err |-> t.err,
              ret |-> IF t.err = NoErr
                      THEN U16(t.response[1] + 128 * t.response[2]) ELSE 0,
              calls |-> t.calls]

\* Pololu::getPosition: response[0] + 256 * response[1]
getPosition(sv, wOk, r) ==
    IF ~isComPortOpen_ THEN PortClosed
    ELSE LET t == writeSerialCom(<<144, U8(sv)>>, 2, wOk, r)
         IN  [err |-> t.err,
              ret |-> IF t.err = NoErr
                      THEN U16(t.response[1] + 256 * t.response[2]) ELSE 0,
              calls |-> t.calls]

\* Pololu::getMovingState that reports motion only for the response 0x01.
getMovingState_onlyOne(wOk, r) ==
    IF ~isComPortOpen_ THEN PortClosed
    ELSE LET t == writeSerialCom(<<147>>, 1, wOk, r)
         IN  [err |-> t.err,
              ret |-> IF t.err = NoErr /\ t.response[1] = 1 THEN 1 ELSE 0,
              calls |-> t.calls]

\* Pololu::getMovingState: response[0] converted to bool
getMovingState(wOk, r) ==
    IF ~isComPortOpen_ THEN PortClosed
    ELSE LET t == writeSerialCom(<<147>>, 1, wOk, r)
         IN  [err |-> t.err,
              ret |-> IF t.err = NoErr /\ t.response[1] # 0 THEN 1 ELSE 0,
              calls |-> t.calls]

\* A call, made while the Pololu object exists, that leaves the connection
\* and the servo as they are.
Report(op, sv, arg, res) ==
    /\ pololuAlive
    /\ last' = Done(op, portName_, sv, arg, "", res.err, res.ret, res.calls)
    /\ UNCHANGED << conn, servo, reinitPending >>

\* Servo numbers and values handed to the commands of Pololu.
ServoArgs == {3, 127, 128}
ValueArgs == {127, 6000, 16383, 16384, 65535}

PololuSetPosition ==
    \E sv \in ServoArgs, v \in ValueArgs, wOk \in BOOLEAN :
        Report("Pololu::setPosition", sv, v, setPosition(sv, v, wOk))

PololuSetSpeed ==
    \E sv \in ServoArgs, v \in ValueArgs, wOk \in BOOLEAN :
        Report("Pololu::setSpeed", sv, v, setSpeed(sv, v, wOk))

PololuSetAcceleration ==
    \E sv \in ServoArgs, v \in ValueArgs, wOk \in BOOLEAN :
        Report("Pololu::setAcceleration", sv, v, setAcceleration(sv, v, wOk))

PololuGetPosition ==
    \E sv \in ServoArgs, e \in TransactEnvs(2) :
        Report("Pololu::getPosition", sv, 0, getPosition(sv, e.wOk, e.r))

PololuGetMovingState ==
    \E e \in TransactEnvs(1) :
        Report("Pololu::getMovingState", 0, 0, getMovingState(e.wOk, e.r))

\* ---------------------------------------------------- class ServoMotor
S16(x) == IF U16(x) >= 32768 THEN U16(x) - 65536 ELSE U16(x)

\* Quotient rounded toward zero, as a C++ conversion to an integer type does.
Trunc(a, b) == IF a >= 0 THEN a \div b ELSE -((-a) \div b)

\* Positions, degrees and radians (in 1/1000 rad) asked of the servo.
PosArgs ==
    { p \in { neutralPosition_ - delta_ - 1, neutralPosition_ - delta_,
              neutralPosition_, neutralPosition_ + delta_,
              neutralPosition_ + delta_ + 1, 0, 16384, 65535 } : p \in 0..65535 }
DegArgs == {-91, -90, -45, 0, 45, 90, 91}
RadArgs == {-1580, -1571, -785, 0, 785, 1571, 1579, 1580}

\* ServoMotor::setPositionInAbs: the comparisons are made in int.
ServoMotor_setPositionInAbs(newPosition, wOk) ==
    IF newPosition > neutralPosition_ + delta_ \/ newPosition < neutralPosition_ - delta_
    THEN [err |-> Exc("string", "OutOfRange"), ret |-> 0, calls |-> <<>>]
    ELSE setPosition(servoNmb_, newPosition, wOk)

\* ServoMotor::setPositionInDeg: the position is converted to unsigned short
\* for Pololu::setPosition, and its result to short.
ServoMotor_setPositionInDeg(newPosition, wOk) ==
    IF newPosition > maxDeg \/ newPosition < -maxDeg
    THEN [err |-> Exc("string", "OutOfRange"), ret |-> 0, calls |-> <<>>]
    ELSE LET res == setPosition(servoNmb_,
                        U16(neutralPosition_
                            + newPosition * conFactorDegToPos * conFactorMyToPos),
                        wOk)
         IN  [res EXCEPT !.ret = S16(res.ret)]

\* 1000 * (rad * 180 / M_PI) * conFactorDegToPos * conFactorMyToPos, with
\* M_PI as 355/113; mrad is the angle in 1/1000 rad.
RadOffsetNum(mrad) == mrad * 180 * conFactorDegToPos * conFactorMyToPos * 113
RadOffsetDen == 1000 * 355

\* The double startingPosition_ + offset converted to unsigned short: the
\* integral part when it is representable; the conversion of a negative
\* value is undefined (the wrapped integral part, or 0 on saturating targets).
RadPositions(mrad) ==
    LET fl == RadOffsetNum(mrad) \div RadOffsetDen
        exact == RadOffsetNum(mrad) % RadOffsetDen = 0
        sum == neutralPosition_ + fl
        integral == IF sum >= 0 \/ exact THEN sum ELSE sum + 1
    IN  IF sum >= 0 /\ integral <= 65535
        THEN {integral}
        ELSE {U16(integral), 0}

\* ServoMotor::setPositionInRad: the range is compared on (int)(100 * rad).
ServoMotor_setPositionInRad(mrad, pos, wOk) ==
    IF Trunc(mrad, 10) > maxRadTimes100 \/ Trunc(mrad, 10) < -maxRadTimes100
    THEN [err |-> Exc("string", "OutOfRange"), ret |-> 0, calls |-> <<>>]
    ELSE setPosition(servoNmb_, pos, wOk)

ServoMotorSetPositionInAbs ==
    \E p \in PosArgs, wOk \in BOOLEAN :
        Report("ServoMotor::setPositionInAbs", servoNmb_, p,
               ServoMotor_setPositionInAbs(p, wOk))

ServoMotorSetPositionInDeg ==
    \E d \in DegArgs, wOk \in BOOLEAN :
        Report("ServoMotor::setPositionInDeg", servoNmb_, d,
               ServoMotor_setPositionInDeg(d, wOk))

ServoMotorSetPositionInRad ==
    \E mrad \in RadArgs, wOk \in BOOLEAN :
        \E pos \in RadPositions(mrad) :
            Report("ServoMotor::setPositionInRad", servoNmb_, mrad,
                   ServoMotor_setPositionInRad(mrad, pos, wOk))

\* ------------------------------------------- class ServoMotorPololuBase
\* The constructor accepts the calibration only when neutralPos > delta.
ServoMotorPololuBase_exists == neutralPosition_ > delta_

getMinPosInAbs == U16(neutralPosition_ - delta_)
getMidPosInAbs == neutralPosition_
getMaxPosInAbs == U16(neutralPosition_ + delta_)

\* catch(IException *e) keeps e->getMsg(); catch(...) (a std::string) drops it.
WrapBase(e) ==
    IF e.cls = "string"
    THEN Exc("ExceptionServoMotorBase", "Unknown")
    ELSE Exc("ExceptionServoMotorBase", e.cause)

\* ServoMotorPololuBase::setPositionInAbs that tests the upper limit only.
ServoMotorPololuBase_setPositionInAbs_maxOnly(newPosition, wSet, wGet, r) ==
    IF newPosition > getMaxPosInAbs
    THEN [err |-> Exc("ExceptionServoMotorBase", "OutOfRange"), ret |-> 0,
          calls |-> <<>>]
    ELSE LET s == setPosition(servoNmb_, newPosition, wSet)
             g == getPosition(servoNmb_, wGet, r)
         IN  IF s.err # NoErr
             THEN [err |-> WrapBase(s.err), ret |-> 0, calls |-> s.calls]
             ELSE IF g.err # NoErr
             THEN [err |-> WrapBase(g.err), ret |-> 0, calls |-> s.calls \o g.calls]
             ELSE [err |-> NoErr, ret |-> g.ret, calls |-> s.calls \o g.calls]

\* ServoMotorPololuBase::setPositionInAbs: range check, Pololu::setPosition,
\* then the result of Pololu::getPosition.
ServoMotorPololuBase_setPositionInAbs(newPosition, wSet, wGet, r) ==
    IF newPosition < getMinPosInAbs \/ newPosition > getMaxPosInAbs
    THEN [err |-> Exc("ExceptionServoMotorBase", "OutOfRange"), ret |-> 0,
          calls |-> <<>>]
    ELSE LET s == setPosition(servoNmb_, newPosition, wSet)
             g == getPosition(servoNmb_, wGet, r)
         IN  IF s.err # NoErr
             THEN [err |-> WrapBase(s.err), ret |-> 0, calls |-> s.calls]
             ELSE IF g.err # NoErr
             THEN [err |-> WrapBase(g.err), ret |-> 0, calls |-> s.calls \o g.calls]
             ELSE [err |-> NoErr, ret |-> g.ret, calls |-> s.calls \o g.calls]

\* A transport that loops back: the read gives the two payload bytes of the
\* set-position command just written.
Echo(p) ==
    [wOk |-> TRUE,
     r |-> [n |-> 2, bytes |-> SubSeq(SetCommand(132, servoNmb_, p), 3, 4)]]

ServoMotorPololuBaseSetPositionInAbs ==
    /\ ServoMotorPololuBase_exists
    /\ \E p \in PosArgs :
        \E wSet \in BOOLEAN, e \in TransactEnvs(2) \cup {Echo(p)} :
            /\ (~wSet => e = [wOk |-> FALSE, r |-> NoRead])
            /\ Report("ServoMotorPololuBase::setPositionInAbs", servoNmb_, p,
                      ServoMotorPololuBase_setPositionInAbs(p, wSet, e.wOk, e.r))

\* ServoMotorPololuBase::getPositionInAbs: Pololu::getPosition, exceptions
\* wrapped.
ServoMotorPololuBase_getPositionInAbs(wOk, r) ==
    LET g == getPosition(servoNmb_, wOk, r)
    IN  IF g.err # NoErr THEN [g EXCEPT !.err = WrapBase(g.err)] ELSE g

ServoMotorPololuBaseGetPositionInAbs ==
    /\ ServoMotorPololuBase_exists
    /\ \E e \in TransactEnvs(2) :
          Report("ServoMotorPololuBase::getPositionInAbs", servoNmb_, 0,
                 ServoMotorPololuBase_getPositionInAbs(e.wOk, e.r))

\* ------------------------------------------------ speed and acceleration
minSpeed == 1
maxSpeed == 255
minAcceleration == 1
maxAcceleration == 255

\* Speeds and accelerations asked of the servo.
SpeedArgs == {0, 1, 200, 255, 256, 65535}

\* ServoMotor::setSpeed: the bool of Pololu::setSpeed converted to unsigned short.
ServoMotor_setSpeed(newSpeed, wOk) ==
    IF newSpeed > maxSpeed \/ newSpeed < minSpeed
    THEN [err |-> Exc("string", "OutOfRange"), ret |-> 0, calls |-> <<>>]
    ELSE setSpeed(servoNmb_, newSpeed, wOk)

\* ServoMotor::setAcceleration
ServoMotor_setAcceleration(newAcceleration, wOk) ==
    IF newAcceleration > maxAcceleration \/ newAcceleration < minAcceleration
    THEN [err |-> Exc("string", "OutOfRange"), ret |-> 0, calls |-> <<>>]
    ELSE setAcceleration(servoNmb_, newAcceleration, wOk)

\* catch(IException *e) keeps e->getMsg(); catch(...) (a std::string) drops it.
WrapAdv(e) ==
    IF e.cls = "string"
    THEN Exc("ExceptionServoMotorBaseAdv", "Unknown")
    ELSE Exc("ExceptionServoMotorBaseAdv", e.cause)

\* ServoMotorPololuBaseAdv::setSpeed: a value above 255 becomes 255; returns
\* the value handed to Pololu::setSpeed.
ServoMotorPololuBaseAdv_setSpeed(newSpeed, wOk) ==
    LET v == IF newSpeed > 255 THEN 255 ELSE newSpeed
        t == setSpeed(servoNmb_, v, wOk)
    IN  IF t.err # NoErr
        THEN [err |-> WrapAdv(t.err), ret |-> 0, calls |-> t.calls]
        ELSE [err |-> NoErr, ret |-> v, calls |-> t.calls]

\* ServoMotorPololuBaseAdv::setAcceleration: a value above 255 becomes 255;
\* the value is handed to Pololu::setSpeed.
ServoMotorPololuBaseAdv_setAcceleration(newAcceleration, wOk) ==
    LET v == IF newAcceleration > 255 THEN 255 ELSE newAcceleration
        t == setSpeed(servoNmb_, v, wOk)
    IN  IF t.err # NoErr
        THEN [err |-> WrapAdv(t.err), ret |-> 0, calls |-> t.calls]
        ELSE [err |-> NoErr, ret |-> v, calls |-> t.calls]

ServoMotorSetSpeed ==
    \E v \in SpeedArgs, wOk \in BOOLEAN :
        Report("ServoMotor::setSpeed", servoNmb_, v, ServoMotor_setSpeed(v, wOk))

ServoMotorSetAcceleration ==
    \E v \in SpeedArgs, wOk \in BOOLEAN :
        Report("ServoMotor::setAcceleration", servoNmb_, v,
               ServoMotor_setAcceleration(v, wOk))

ServoMotorPololuBaseAdvSetSpeed ==
    /\ ServoMotorPololuBase_exists
    /\ \E v \in SpeedArgs, wOk \in BOOLEAN :
          Report("ServoMotorPololuBaseAdv::setSpeed", servoNmb_, v,
                 ServoMotorPololuBaseAdv_setSpeed(v, wOk))

ServoMotorPololuBaseAdvSetAcceleration ==
    /\ ServoMotorPololuBase_exists
    /\ \E v \in SpeedArgs, wOk \in BOOLEAN :
          Report("ServoMotorPololuBaseAdv::setAcceleration", servoNmb_, v,
                 ServoMotorPololuBaseAdv_setAcceleration(v, wOk))

\* ------------------------------------- a servo whose Pololu was deleted
\* The calls of ServoMotorPololuBase and ServoMotorPololuBaseAdv that reach
\* pololuCtrl_ (setPositionInAbs only with a position in range), with the
\* exception class each of them throws.
DanglingCalls ==
    { [op |-> "ServoMotorPololuBase::setPositionInAbs", arg |-> neutralPosition_,
       cls |-> "ExceptionServoMotorBase",
       command |-> SetCommand(132, servoNmb_, neutralPosition_)],
      [op |-> "ServoMotorPololuBase::getPositionInAbs", arg |-> 0,
       cls |-> "ExceptionServoMotorBase", command |-> <<144, U8(servoNmb_)>>],
      [op |-> "ServoMotorPololuBaseAdv::setSpeed", arg |-> 200,
       cls |-> "ExceptionServoMotorBaseAdv",
       command |-> SetCommand(135, servoNmb_, 200)],
      [op |-> "ServoMotorPololuBaseAdv::setAcceleration", arg |-> 200,
       cls |-> "ExceptionServoMotorBaseAdv",
       command |-> SetCommand(135, servoNmb_, 200)] }

\* pololuCtrl_ is kept as a plain pointer and never tested again, so a call
\* after delete reads freed memory; the behaviour is undefined.  Outcomes:
\* the virtual call faults; the freed isComPortOpen_ reads false and the
\* port-closed exception is thrown; it reads true and the write goes to the
\* descriptor number of the freed SerialCom, which is closed.
DanglingOutcomes(c) ==
    { [err |-> Exc("signal", "SIGSEGV"), ret |-> 0, calls |-> <<>>],
      [err |-> Exc(c.cls, "PortClosed"), ret |-> 0, calls |-> <<>>],
      [err |-> Exc(c.cls, "Unknown"), ret |-> 0,
       calls |-> << [Call("write", port_, -1, c.command)
                        EXCEPT !.size = Len(c.command)] >>] }

UseAfterDestroy ==
    /\ ~pololuAlive
    /\ ServoMotorPololuBase_exists
    /\ \E c \in DanglingCalls :
          \E res \in DanglingOutcomes(c) :
              /\ last' = Done(c.op, portName_, servoNmb_, c.arg, "",
                              res.err, res.ret, res.calls)
              /\ UNCHANGED << conn, servo, reinitPending >>

\* ------------------------------------------------ class ServoMotorPololu
\* The degree limits of a ServoMotorPololu as constructed; setMinMaxDegree
\* and setMinMaxRadian, which replace them, are not part of the model.
minDeg_ == -90
maxDeg_ == 90

\* Degrees whose position the controller is made to report.
ReportedDegs == {-90, -45, 0, 1, 45, 90}

\* catch(IException *e) keeps e->getMsg(); catch(...) (a std::string) drops it.
WrapServo(e) ==
    IF e.cls = "string"
    THEN Exc("ExceptionServoMotor", "Unknown")
    ELSE Exc("ExceptionServoMotor", e.cause)

\* ServoMotorPololu::rad2deg for the angle mrad / 1000:
\* (short)(x * 180.0 / M_PI + 0.5), the conversion rounding toward zero;
\* M_PI as 355/113.
rad2deg(mrad) == Trunc(2 * mrad * 180 * 113 + 1000 * 355, 2 * 1000 * 355)

\* ServoMotorPololu::deg2rad in 1/1000 rad, rounded down: the parameter is an
\* unsigned short, so that a negative degree arrives as 65536 + degree.
deg2rad(x) == (U16(x) * 17750) \div 1017

\* ServoMotorPololu::mapDegValue2PosValue: the position
\* 2 * delta / (maxDeg - minDeg) * (d - minDeg) + (neutral - delta) cut to
\* its integral part.  For the calibrations and degrees used here the float
\* arithmetic of the source gives the integral part of the exact value.  The
\* conversion of a value above 65535 to unsigned short is undefined (the
\* wrapped value, or 65535 on saturating targets).
mapDegValue2PosValue(d) ==
    LET pos == (2 * delta_ * (d - minDeg_)) \div (maxDeg_ - minDeg_)
                 + (neutralPosition_ - delta_)
    IN  IF pos <= 65535 THEN {pos} ELSE {U16(pos), 65535}

\* ServoMotorPololu::mapPosValue2DegValue: the degree
\* (maxDeg - minDeg) / (2 * delta) * (p - (neutral - delta)) + minDeg cut
\* toward zero.  With delta = 0 the factor is infinite and the conversion of
\* the infinite or undefined product to short is undefined, as is that of a
\* value outside the range of short.
mapPosValue2DegValue(p) ==
    IF delta_ = 0 THEN {0, -1}
    ELSE LET deg == Trunc((maxDeg_ - minDeg_) * (p - (neutralPosition_ - delta_))
                            + minDeg_ * 2 * delta_, 2 * delta_)
         IN  IF deg \in -32768..32767 THEN {deg}
             ELSE {S16(deg), IF deg > 0 THEN 32767 ELSE -32768}

\* ServoMotorPololu::setPositionInDeg with pos, one of the positions
\* mapDegValue2PosValue gives; returns the degree.
ServoMotorPololu_setPositionInDeg(newPosition, pos, wOk) ==
    IF newPosition < minDeg_ \/ newPosition > maxDeg_
    THEN [err |-> Exc("ExceptionServoMotor", "OutOfRange"), ret |-> 0, calls |-> <<>>]
    ELSE LET t == setPosition(servoNmb_, pos, wOk)
         IN  IF t.err # NoErr
             THEN [err |-> WrapServo(t.err), ret |-> 0, calls |-> t.calls]
             ELSE [err |-> NoErr, ret |-> newPosition, calls |-> t.calls]

\* ServoMotorPololu::setPositionInRad: setPositionInDeg(rad2deg(x)), then
\* deg2rad of the degree it returned.
ServoMotorPololu_setPositionInRad(mrad, pos, wOk) ==
    LET t == ServoMotorPololu_setPositionInDeg(rad2deg(mrad), pos, wOk)
    IN  IF t.err # NoErr
        THEN [t EXCEPT !.err = WrapServo(t.err)]
        ELSE [t EXCEPT !.ret = deg2rad(t.ret)]

\* ServoMotorPololu::getPositionInDeg with deg, one of the degrees
\* mapPosValue2DegValue gives for the position read.
ServoMotorPololu_getPositionInDeg(g, deg) ==
    IF g.err # NoErr
    THEN [g EXCEPT !.err = WrapServo(g.err)]
    ELSE [g EXCEPT !.ret = deg]

\* ServoMotorPololu::getPositionInRad
ServoMotorPololu_getPositionInRad(g, deg) ==
    IF g.err # NoErr
    THEN [g EXCEPT !.err = WrapServo(g.err)]
    ELSE [g EXCEPT !.ret = deg2rad(deg)]

\* The degrees handed to mapDegValue2PosValue: those in range.
MappedDeg(d) == IF d < minDeg_ \/ d > maxDeg_ THEN minDeg_ ELSE d

\* What the operating system and the controller do with a position query:
\* any outcome of the transaction, or the controller reporting position p.
Reporting(p) ==
    [wOk |-> TRUE, r |-> [n |-> 2, bytes |-> << p % 256, p \div 256 >>]]
PositionEnvs(positions) ==
    TransactEnvs(2) \cup { Reporting(p) : p \in positions }

\* The positions ServoMotorPololu::setPositionInDeg sends for ReportedDegs.
ServoMotorPololu_positions ==
    UNION { mapDegValue2PosValue(d) : d \in ReportedDegs }

\* A call that also records the position the controller reported (more).
ReportGet(op, res) ==
    /\ pololuAlive
    /\ last' = [Done(op, portName_, servoNmb_, 0, "", res.err, res.ret, res.calls)
                   EXCEPT !.more = IF res.err = NoErr
                                   THEN << res.calls[2].bytes[1]
                                           + 256 * res.calls[2].bytes[2] >>
                                   ELSE <<>>]
    /\ UNCHANGED << conn, servo, reinitPending >>

ServoMotorPololuSetPositionInDeg ==
    /\ ServoMotorPololuBase_exists
    /\ \E d \in DegArgs \cup {1}, wOk \in BOOLEAN :
          \E pos \in mapDegValue2PosValue(MappedDeg(d)) :
              Report("ServoMotorPololu::setPositionInDeg", servoNmb_, d,
                     ServoMotorPololu_setPositionInDeg(d, pos, wOk))

ServoMotorPololuSetPositionInRad ==
    /\ ServoMotorPololuBase_exists
    /\ \E mrad \in RadArgs, wOk \in BOOLEAN :
          \E pos \in mapDegValue2PosValue(MappedDeg(rad2deg(mrad))) :
              Report("ServoMotorPololu::setPositionInRad", servoNmb_, mrad,
                     ServoMotorPololu_setPositionInRad(mrad, pos, wOk))

ServoMotorPololuGetPositionInDeg ==
    /\ ServoMotorPololuBase_exists
    /\ \E e \in PositionEnvs(ServoMotorPololu_positions) :
          LET g == ServoMotorPololuBase_getPositionInAbs(e.wOk, e.r)
          IN  \E deg \in mapPosValue2DegValue(g.ret) :
                  ReportGet("ServoMotorPololu::getPositionInDeg",
                            ServoMotorPololu_getPositionInDeg(g, deg))

ServoMotorPololuGetPositionInRad ==
    /\ ServoMotorPololuBase_exists
    /\ \E e \in PositionEnvs(ServoMotorPololu_positions) :
          LET g == ServoMotorPololuBase_getPositionInAbs(e.wOk, e.r)
          IN  \E deg \in mapPosValue2DegValue(g.ret) :
                  ReportGet("ServoMotorPololu::getPositionInRad",
                            ServoMotorPololu_getPositionInRad(g, deg))

\* ----------------------------------------- class ServoMotor: the reads
\* ServoMotor::getPositionInDeg:
\* (getPosition / conFactorMyToPos - startingPosition_) / conFactorDegToPos
\* in int, converted to short; the exceptions of getPosition pass through.
ServoMotor_getPositionInDeg(g) ==
    IF g.err # NoErr THEN g
    ELSE [g EXCEPT !.ret =
            S16(Trunc(g.ret \div conFactorMyToPos - neutralPosition_, conFactorDegToPos))]

\* ServoMotor::getPositionInRad in 1/1000 rad:
\* (getPosition / conFactorMyToPos - startingPosition_) * M_PI
\*     / conFactorDegToPos / 180, M_PI as 355/113 (1000 * 355 / (113 * 1800)
\* is 1775 / 1017).
ServoMotor_getPositionInRad(g) ==
    IF g.err # NoErr THEN g
    ELSE [g EXCEPT !.ret =
            Trunc((g.ret \div conFactorMyToPos - neutralPosition_) * 1775, 1017)]

\* The positions ServoMotor::setPositionInDeg sends for ReportedDegs.
ServoMotor_positions ==
    { U16(neutralPosition_ + d * conFactorDegToPos * conFactorMyToPos) :
        d \in ReportedDegs }

ServoMotorGetPositionInDeg ==
    \E e \in PositionEnvs(ServoMotor_positions) :
        ReportGet("ServoMotor::getPositionInDeg",
                  ServoMotor_getPositionInDeg(getPosition(servoNmb_, e.wOk, e.r)))

ServoMotorGetPositionInRad ==
    \E e \in PositionEnvs(ServoMotor_positions) :
        ReportGet("ServoMotor::getPositionInRad",
                  ServoMotor_getPositionInRad(getPosition(servoNmb_, e.wOk, e.r)))

\* ------------------------------------------------- construction, reads
\* (servo number, neutral position, delta) handed to the constructor.
CtorArgs == Calibrations \cup { <<3, 6000, 0>>, <<3, 6000, 6000>> }

\* The controller pointer handed to the constructor.
CtrlArgs == {"NULL", "&pololu"}

\* The constructor comparing neutralPos < delta.
ServoMotorPololuBase_ctor_less(servoID, neutralPos, delta, pololuController) ==
    IF neutralPos < delta
    THEN Exc("ExceptionServoMotorBase", "DeltaTooLarge")
    ELSE IF pololuController = "NULL"
    THEN Exc("ExceptionServoMotorBase", "NullController")
    ELSE NoErr

\* ServoMotorPololuBase::ServoMotorPololuBase: the tests of servoNmb_ < 0 and
\* neutralPosition_ < 0 are on unsigned values and never true; the
\* constructor throws when neutralPos <= delta and when the controller is NULL.
ServoMotorPololuBase_ctor(servoID, neutralPos, delta, pololuController) ==
    IF neutralPos <= delta
    THEN Exc("ExceptionServoMotorBase", "DeltaTooLarge")
    ELSE IF pololuController = "NULL"
    THEN Exc("ExceptionServoMotorBase", "NullController")
    ELSE NoErr

\* A servo is constructed; when the constructor returns, it is the servo
\* under test from then on.  The record of the call keeps the arguments:
\* servo, arg (the neutral position), more (the delta) and env (the
\* controller).
ServoMotorPololuBaseConstruct ==
    /\ pololuAlive
    /\ \E c \in CtorArgs, ctrl \in CtrlArgs :
          LET err == ServoMotorPololuBase_ctor(c[1], c[2], c[3], ctrl)
          IN  /\ IF err = NoErr
                 THEN /\ servoNmb_' = c[1]
                      /\ neutralPosition_' = c[2]
                      /\ delta_' = c[3]
                 ELSE UNCHANGED servo
              /\ last' = [Done("ServoMotorPololuBase::ServoMotorPololuBase",
                               portName_, c[1], c[2], ctrl, err, 0, <<>>)
                             EXCEPT !.more = << c[3] >>]
              /\ UNCHANGED << conn, reinitPending >>

\* A read of the calibration: no call of the controller.
Read(value) == [err |-> NoErr, ret |-> value, calls |-> <<>>]

ServoMotorPololuBaseGetServoNumber ==
    /\ ServoMotorPololuBase_exists
    /\ Report("ServoMotorPololuBase::getServoNumber", servoNmb_, 0,
              Read(servoNmb_))

ServoMotorPololuBaseGetMinPosInAbs ==
    /\ ServoMotorPololuBase_exists
    /\ Report("ServoMotorPololuBase::getMinPosInAbs", servoNmb_, 0,
              Read(getMinPosInAbs))

ServoMotorPololuBaseGetMidPosInAbs ==
    /\ ServoMotorPololuBase_exists
    /\ Report("ServoMotorPololuBase::getMidPosInAbs", servoNmb_, 0,
              Read(getMidPosInAbs))

ServoMotorPololuBaseGetMaxPosInAbs ==
    /\ ServoMotorPololuBase_exists
    /\ Report("ServoMotorPololuBase::getMaxPosInAbs", servoNmb_, 0,
              Read(getMaxPosInAbs))

\* ServoMotor::showPololuValues giving the positions as they are.
ServoMotor_showPololuValues_raw ==
    << U16(neutralPosition_ - delta_), neutralPosition_,
       U16(neutralPosition_ + delta_) >>

\* ServoMotor::showPololuValues: <<min, mid, max>>, each divided by
\* conFactorMyToPos in int and converted to unsigned short.
ServoMotor_showPololuValues ==
    << U16(Trunc(neutralPosition_ - delta_, conFactorMyToPos)),
       U16(neutralPosition_ \div conFactorMyToPos),
       U16((neutralPosition_ + delta_) \div conFactorMyToPos) >>

\* ServoMotorPololu::showPololuValues: <<min, mid, max>> in unsigned short.
ServoMotorPololu_showPololuValues ==
    << U16(neutralPosition_ - delta_), neutralPosition_,
       U16(neutralPosition_ + delta_) >>

\* A call that gives values back by reference and leaves the connection and
\* the servo as they are.
ReportValues(op, values) ==
    /\ pololuAlive
    /\ last' = [Done(op, portName_, servoNmb_, 0, "", NoErr, 0, <<>>)
                   EXCEPT !.more = values]
    /\ UNCHANGED << conn, servo, reinitPending >>

ServoMotorShowPololuValues ==
    ReportValues("ServoMotor::showPololuValues", ServoMotor_showPololuValues)

ServoMotorPololuShowPololuValues ==
    /\ ServoMotorPololuBase_exists
    /\ ReportValues("ServoMotorPololu::showPololuValues",
                    ServoMotorPololu_showPololuValues)

\* ------------------------------------------------------------------ Init
\* Pololu::Pololu and SerialCom::SerialCom: closed, port_ = 0; the process
\* holds its three standard descriptors.
Init ==
    /\ isComPortOpen_ = FALSE
    /\ port_ = 0
    /\ portName_ = "/dev/ttyACM0"
    /\ baudRate_ = 9600
    /\ fdtab = [fd \in Fds |-> IF fd <= 2 THEN "std" ELSE "free"]
    /\ \E c \in Calibrations :
         /\ servoNmb_ = c[1]
         /\ neutralPosition_ = c[2]
         /\ delta_ = c[3]
    /\ pololuAlive = TRUE
    /\ reinitPending = FALSE
    /\ last = Done("construct", portName_, 0, baudRate_, "", NoErr, 0, <<>>)

Next ==
    \/ \E env \in OpenEnvs : openConnection(env)
    \/ closeConnection
    \/ \E cp \in ConnParams : initConnection(cp[1], cp[2])
    \/ PololuSetPosition
    \/ PololuSetSpeed
    \/ PololuSetAcceleration
    \/ PololuGetPosition
    \/ PololuGetMovingState
    \/ ServoMotorSetPositionInAbs
    \/ ServoMotorSetPositionInDeg
    \/ ServoMotorSetPositionInRad
    \/ ServoMotorPololuBaseSetPositionInAbs
    \/ ServoMotorPololuBaseGetPositionInAbs
    \/ ServoMotorSetSpeed
    \/ ServoMotorSetAcceleration
    \/ ServoMotorPololuBaseAdvSetSpeed
    \/ ServoMotorPololuBaseAdvSetAcceleration
    \/ destroyPololu
    \/ UseAfterDestroy
    \/ ServoMotorPololuBaseConstruct
    \/ ServoMotorPololuBaseGetServoNumber
    \/ ServoMotorPololuBaseGetMinPosInAbs
    \/ ServoMotorPololuBaseGetMidPosInAbs
    \/ ServoMotorPololuBaseGetMaxPosInAbs
    \/ ServoMotorShowPololuValues
    \/ ServoMotorPololuShowPololuValues
    \/ ServoMotorPololuSetPositionInDeg
    \/ ServoMotorPololuSetPositionInRad
    \/ ServoMotorPololuGetPositionInDeg
    \/ ServoMotorPololuGetPositionInRad
    \/ ServoMotorGetPositionInDeg
    \/ ServoMotorGetPositionInRad

Spec == Init /\ [][Next]_vars

\* =================================================================== claims
PololuCommandOps ==
    { "Pololu::setPosition", "Pololu::setSpeed", "Pololu::setAcceleration",
      "Pololu::getPosition", "Pololu::getMovingState" }
PololuSetOps == { "Pololu::setPosition", "Pololu::setSpeed", "Pololu::setAcceleration" }
SetAbsOps == { "ServoMotor::setPositionInAbs", "ServoMotorPololuBase::setPositionInAbs" }
ServoSetPositionOps ==
    SetAbsOps \cup { "ServoMotor::setPositionInDeg", "ServoMotor::setPositionInRad" }

NotConnected(e) == e.cause = "PortClosed"
OutOfRange(e) == e.cause = "OutOfRange"

\* The set-position commands the last call wrote to the transport.
PositionWrites ==
    { i \in DOMAIN last.calls :
        /\ last.calls[i].fn = "write"
        /\ last.calls[i].ret >= 0
        /\ last.calls[i].bytes[1] = 132 }

\* Every transport call of the last call succeeded, every read in full.
WorkingTransport ==
    \A i \in DOMAIN last.calls :
        /\ last.calls[i].ret >= 0
        /\ last.calls[i].fn = "read" => last.calls[i].ret = 2

InRange(p) == neutralPosition_ - delta_ <= p /\ p <= neutralPosition_ + delta_

\* C1: each of the five commands, issued while the connection is closed,
\* fails with the port-closed exception of Pololu and makes no transport
\* call; so does a servo call that reaches the command (one that is not
\* refused as out of range).
C1_ClosedCommandsFail ==
    /\ (~isComPortOpen_ /\ last.op \in PololuCommandOps)
         => /\ last.err = Exc("ExceptionPololu", "PortClosed")
            /\ last.calls = <<>>
    /\ (/\ pololuAlive /\ ~isComPortOpen_
        /\ last.op \in ServoSetPositionOps /\ ~OutOfRange(last.err))
         => /\ NotConnected(last.err)
            /\ last.calls = <<>>

\* A command refused after a failed configuration left a descriptor open.
C1_Witness ==
    /\ ~isComPortOpen_
    /\ last.op = "Pololu::setPosition"
    /\ NotConnected(last.err)
    /\ DeviceFds(fdtab) # {}

\* C2: setPositionInAbs with a position below neutral - delta or above
\* neutral + delta fails with the out-of-range exception and makes no
\* transport call, whether the connection is open or closed.
C2_OutOfRangeNoIO ==
    (last.op \in SetAbsOps /\ ~InRange(last.arg))
        => /\ OutOfRange(last.err)
           /\ last.calls = <<>>

C2_Witness ==
    /\ last.op = "ServoMotorPololuBase::setPositionInAbs"
    /\ last.arg < neutralPosition_ - delta_
    /\ isComPortOpen_
    /\ OutOfRange(last.err)

\* C3 (as claimed): for a servo with neutral > delta, every set-position
\* command written by setPositionInAbs, setPositionInDeg or setPositionInRad
\* carries a position in [neutral - delta, neutral + delta].
C3_WrittenPositionInRange ==
    (neutralPosition_ > delta_ /\ last.op \in ServoSetPositionOps)
        => \A i \in PositionWrites :
              InRange(last.calls[i].bytes[3] + 128 * last.calls[i].bytes[4])

\* C4 (as claimed): on an open connection with a working transport,
\* setPositionInAbs of a position in range succeeds, returns that position
\* and makes exactly one transport call, the write of the command.
C4_ReturnsValueSetOneWrite ==
    (last.op \in SetAbsOps /\ isComPortOpen_ /\ InRange(last.arg) /\ WorkingTransport)
        => /\ last.err = NoErr
           /\ last.ret = last.arg
           /\ Len(last.calls) = 1
           /\ last.calls[1].fn = "write"

\* C5: for a servo number in 0..127 and a position in 0..16383 the
\* set-position command written is 0x84, the servo number unchanged, the low
\* seven bits, the high seven bits; 6000 is sent as 0x70, 0x2E.
C5_SetPositionBytes ==
    (/\ last.op \in {"Pololu::setPosition", "ServoMotor::setPositionInAbs"}
     /\ last.servo \in 0..127 /\ last.arg \in 0..16383
     /\ last.calls # <<>>)
        => LET b == last.calls[1].bytes
           IN  /\ last.calls[1].fn = "write"
               /\ Len(b) = 4
               /\ b[1] = 132
               /\ b[2] = last.servo
               /\ b[3] \in 0..127 /\ b[4] \in 0..127
               /\ b[3] + 128 * b[4] = last.arg
               /\ (last.arg = 6000 => (b[3] = 112 /\ b[4] = 46))

C5_Witness ==
    /\ last.op = "ServoMotor::setPositionInAbs"
    /\ last.arg = 6000
    /\ last.calls # <<>>
    /\ last.calls[1].bytes = <<132, 3, 112, 46>>

\* C6 (as claimed): a set command for a servo number >= 128 or a value
\* >= 16384 fails as out of range and writes nothing (here on an open
\* connection whose transport works).
C6_EncodersReject ==
    (/\ last.op \in PololuSetOps
     /\ isComPortOpen_
     /\ WorkingTransport
     /\ (last.servo >= 128 \/ last.arg >= 16384))
        => /\ OutOfRange(last.err)
           /\ last.calls = <<>>

\* The last call read back the two payload bytes of the set-position
\* command it wrote.
EchoedSetPosition ==
    /\ last.op = "ServoMotorPololuBase::setPositionInAbs"
    /\ last.err = NoErr
    /\ last.calls[3].bytes = SubSeq(last.calls[1].bytes, 3, 4)

\* C7 (as claimed): getPosition's recombination of the echoed payload of a
\* set-position command gives back the position set.
C7_EchoRoundTrip == EchoedSetPosition => last.ret = last.arg

\* C7 (amended): the payload bytes recombine as low + 128 * high to the
\* position (modulo 2^14); getPosition's low + 256 * high of the echo gives
\* position + 128 * (position div 128) for positions below 2^14, which is
\* the position only below 128.
C7_EchoSevenBitSplit ==
    EchoedSetPosition
        => LET b == last.calls[1].bytes
           IN  /\ b[3] + 128 * b[4] = last.arg % 16384
               /\ last.ret = (last.arg % 128) + 256 * ((last.arg \div 128) % 128)
               /\ (last.arg < 16384 => last.ret = last.arg + 128 * (last.arg \div 128))
               /\ (last.arg < 16384 => (last.ret = last.arg <=> last.arg < 128))

C7_Witness ==
    /\ EchoedSetPosition
    /\ last.arg = 6000
    /\ last.ret = 11888

C10_WitnessCommand ==
    /\ reinitPending
    /\ last.op = "Pololu::getMovingState"
    /\ DeviceFds(fdtab) # {}

\* The transport error openSerialCom reports for each failing step.
TransportError(env) ==
    CASE env = "open_fail" -> "OpenFailed"
      [] env = "flush_fail" -> "FlushFailed"
      [] env = "getattr_fail" -> "GetAttrFailed"
      [] env = "setattr_fail" -> "SetAttrFailed"
      [] OTHER -> "none"

\* C11: when the operating system fails to open, to flush or to configure
\* the device, openConnection throws ExceptionPololu with that transport
\* error and leaves the connection closed, also when it was open before; and
\* openConnection never ends with an exception and the flag set.
C11_FailedOpenCloses ==
    /\ (last.op = "openConnection" /\ last.env # "ok")
          => /\ last.err = Exc("ExceptionPololu", TransportError(last.env))
             /\ ~isComPortOpen_
    /\ (last.op = "openConnection" /\ last.err # NoErr) => ~isComPortOpen_

\* A failed configuration on a connection that was open.
C11_Witness ==
    /\ last.op = "openConnection"
    /\ last.env = "setattr_fail"
    /\ last.before.open
    /\ ~isComPortOpen_

\* The connection holds an open descriptor of a serial device.
HoldsLiveHandle == IsOpenFd(fdtab, port_) /\ fdtab[port_] \in PortNames

\* C12 (as claimed): while the Pololu object exists, isComPortOpen_ is true
\* exactly when the connection holds an open device descriptor.
C12_FlagIffHandle == pololuAlive => (isComPortOpen_ <=> HoldsLiveHandle)

\* C13: once the Pololu object is deleted, from whatever state, no device
\* descriptor remains open and the descriptor it held is closed.
C13_DestroyReleases ==
    ~pololuAlive => (DeviceFds(fdtab) = {} /\ ~IsOpenFd(fdtab, port_))

\* The deletion of a connection whose open failed after the device was
\* opened: closed, yet holding a descriptor.
C13_Witness ==
    /\ last.op = "~Pololu"
    /\ ~last.before.open
    /\ last.before.held # {}
    /\ last.calls[1].ret = 0

\* C14 (as claimed): a servo call that needs the connection, made after the
\* Pololu object was deleted, fails with the not-connected error and makes
\* no transport call.
C14_DestroyedFailsNotConnected ==
    (~pololuAlive /\ last.op # "~Pololu")
        => (NotConnected(last.err) /\ last.calls = <<>>)

\* The call sequence of a transaction that sends n bytes and expects m: one
\* write of n bytes; then, only when the write succeeded and m > 0, one read
\* of m bytes; nothing else.
TransactionShape(n, m) ==
    /\ Len(last.calls) >= 1
    /\ last.calls[1].fn = "write"
    /\ last.calls[1].size = n
    /\ Len(last.calls[1].bytes) = n
    /\ IF m > 0 /\ last.calls[1].ret # -1
       THEN /\ Len(last.calls) = 2
            /\ last.calls[2].fn = "read"
            /\ last.calls[2].size = m
            /\ last.calls[2].fd = last.calls[1].fd
            /\ (last.err = NoErr <=> last.calls[2].ret = m)
       ELSE /\ Len(last.calls) = 1
            /\ (last.err = NoErr <=> last.calls[1].ret # -1)

\* C15: on an open connection each set command makes one write of 4 bytes
\* and no read, getPosition one write of 2 bytes followed by one read of 2
\* bytes, getMovingState one write of 1 byte followed by one read of 1 byte;
\* no read is made when the write fails.
C15_WriteThenRead ==
    isComPortOpen_
        => /\ last.op \in PololuSetOps => TransactionShape(4, 0)
           /\ last.op = "Pololu::getPosition" => TransactionShape(2, 2)
           /\ last.op = "Pololu::getMovingState" => TransactionShape(1, 1)

\* A getPosition whose write failed: no read.
C15_Witness ==
    /\ isComPortOpen_
    /\ last.op = "Pololu::getPosition"
    /\ last.calls[1].ret = -1
    /\ Len(last.calls) = 1

\* A getMovingState that wrote and read.
C15_WitnessRead ==
    /\ isComPortOpen_
    /\ last.op = "Pololu::getMovingState"
    /\ Len(last.calls) = 2
    /\ last.err = NoErr

\* C16: on an open connection getPosition writes exactly the two bytes 0x90
\* and the servo number, and for every two-byte response returns
\* response[0] + 256 * response[1].
C16_GetPositionBytes ==
    (isComPortOpen_ /\ last.op = "Pololu::getPosition")
        => /\ last.calls[1].fn = "write"
           /\ last.calls[1].bytes = <<144, last.servo>>
           /\ last.err = NoErr
                => last.ret = last.calls[2].bytes[1] + 256 * last.calls[2].bytes[2]

\* The response 0xFF, 0x01 read as 511.
C16_Witness ==
    /\ isComPortOpen_
    /\ last.op = "Pololu::getPosition"
    /\ last.err = NoErr
    /\ last.calls[2].bytes = <<255, 1>>
    /\ last.ret = 511

\* C17: on an open connection getMovingState writes exactly the byte 0x93
\* and returns true exactly when the response byte is not zero.
C17_MovingStateBytes ==
    (isComPortOpen_ /\ last.op = "Pololu::getMovingState")
        => /\ last.calls[1].fn = "write"
           /\ last.calls[1].bytes = <<147>>
           /\ last.ret \in {0, 1}
           /\ last.err = NoErr => (last.ret = 1 <=> last.calls[2].bytes[1] # 0)

\* The response 0xFF read as true.
C17_Witness ==
    /\ isComPortOpen_
    /\ last.op = "Pololu::getMovingState"
    /\ last.err = NoErr
    /\ last.calls[2].bytes = <<255>>
    /\ last.ret = 1

SpeedOps ==
    { "ServoMotor::setSpeed", "ServoMotor::setAcceleration",
      "ServoMotorPololuBaseAdv::setSpeed", "ServoMotorPololuBaseAdv::setAcceleration" }
AccelerationOps ==
    { "ServoMotor::setAcceleration", "ServoMotorPololuBaseAdv::setAcceleration" }

\* C18 (as claimed): on an open connection whose transport works, setSpeed
\* and setAcceleration of a servo succeed for every value in 0..255 and
\* write that value.
C18_SpeedAccepted ==
    (/\ pololuAlive /\ isComPortOpen_
     /\ last.op \in SpeedOps
     /\ last.arg \in 0..255
     /\ WorkingTransport)
        => /\ last.err = NoErr
           /\ Len(last.calls) = 1
           /\ last.calls[1].bytes[3] + 128 * last.calls[1].bytes[4] = last.arg

\* C19 (as claimed): on an open connection whose transport works, setSpeed
\* and setAcceleration of a servo with a value above 255 fail as out of
\* range and write nothing.
C19_SpeedAbove255Rejected ==
    (/\ pololuAlive /\ isComPortOpen_
     /\ last.op \in SpeedOps
     /\ last.arg > 255
     /\ WorkingTransport)
        => /\ OutOfRange(last.err)
           /\ last.calls = <<>>

\* C20 (as claimed): a successful setAcceleration of a servo writes the
\* command 0x89, a successful setSpeed the command 0x87, each with the servo
\* number and the value split into its low and high seven bits (here for
\* values up to 255).
C20_SpeedAccelerationOpcodes ==
    (last.op \in SpeedOps /\ last.err = NoErr /\ last.arg <= 255)
        => last.calls[1].bytes =
              SetCommand(IF last.op \in AccelerationOps THEN 137 ELSE 135,
                         last.servo, last.arg)

CtorOp == "ServoMotorPololuBase::ServoMotorPololuBase"

\* The calls made on an object of ServoMotorPololuBase or a class derived
\* from it.
ServoMotorPololuOps ==
    { "ServoMotorPololuBase::setPositionInAbs", "ServoMotorPololuBase::getPositionInAbs",
      "ServoMotorPololuBaseAdv::setSpeed", "ServoMotorPololuBaseAdv::setAcceleration",
      "ServoMotorPololuBase::getServoNumber", "ServoMotorPololuBase::getMinPosInAbs",
      "ServoMotorPololuBase::getMidPosInAbs", "ServoMotorPololuBase::getMaxPosInAbs",
      "ServoMotorPololu::showPololuValues",
      "ServoMotorPololu::setPositionInDeg", "ServoMotorPololu::setPositionInRad",
      "ServoMotorPololu::getPositionInDeg", "ServoMotorPololu::getPositionInRad" }

C25_WitnessNull ==
    /\ last.op = CtorOp
    /\ last.arg > last.more[1] /\ last.env = "NULL"
    /\ last.err = Exc("ExceptionServoMotorBase", "NullController")

\* C26 (as claimed): the constructor throws for delta = 0.
C26_ZeroDeltaRejected ==
    (last.op = CtorOp /\ last.more[1] = 0) => last.err # NoErr

\* The values the calibration reads give back when no 16-bit conversion
\* changes them.
RawCalibration ==
    << neutralPosition_ - delta_, neutralPosition_, neutralPosition_ + delta_ >>

CalibrationReadOps ==
    { "ServoMotorPololuBase::getServoNumber", "ServoMotorPololuBase::getMinPosInAbs",
      "ServoMotorPololuBase::getMidPosInAbs", "ServoMotorPololuBase::getMaxPosInAbs",
      "ServoMotor::showPololuValues", "ServoMotorPololu::showPololuValues" }

CalibrationValues ==
    last.op \in CalibrationReadOps
        => /\ last.err = NoErr /\ last.calls = <<>>
           /\ last.op = "ServoMotorPololuBase::getServoNumber" => last.ret = servoNmb_
           /\ last.op = "ServoMotorPololuBase::getMinPosInAbs"
                => last.ret = neutralPosition_ - delta_
           /\ last.op = "ServoMotorPololuBase::getMidPosInAbs" => last.ret = neutralPosition_
           /\ last.op = "ServoMotorPololuBase::getMaxPosInAbs"
                => last.ret = (neutralPosition_ + delta_) % 65536
           /\ last.op = "ServoMotorPololu::showPololuValues"
                => last.more = << neutralPosition_ - delta_, neutralPosition_,
                                (neutralPosition_ + delta_) % 65536 >>
           /\ last.op = "ServoMotor::showPololuValues"
                => /\ last.more[2] = neutralPosition_ \div 4
                   /\ last.more[3] = ((neutralPosition_ + delta_) \div 4) % 65536
                   /\ neutralPosition_ >= delta_
                        => last.more[1] = (neutralPosition_ - delta_) \div 4
                   /\ neutralPosition_ < delta_
                        => last.more[1] = (65536 - (delta_ - neutralPosition_) \div 4) % 65536

ClosesHeldOnce ==
    \A i \in DOMAIN last.calls :
        last.calls[i].fn = "close"
            => /\ last.calls[i].fd \in last.before.held
               /\ last.calls[i].ret = 0
               /\ \A j \in 1..(i - 1) :
                     ~(last.calls[j].fn = "close" /\ last.calls[j].fd = last.calls[i].fd)

\* C28 (as claimed): every close made by the connection is on a device
\* descriptor it opened and has not released: never on the value port_ has
\* before any open, never twice.
C28_ClosesOnlyHeldHandle == ClosesHeldOnce

\* C29 (as claimed): for a servo the constructor accepted, in 16-bit
\* arithmetic min <= neutral <= max, and setPositionInAbs accepts every
\* position in [neutral - delta, neutral + delta].
C29_BoundsOrdered ==
    /\ (last.op = CtorOp /\ last.err = NoErr)
         => (getMinPosInAbs <= getMidPosInAbs /\ getMidPosInAbs <= getMaxPosInAbs)
    /\ (last.op = "ServoMotorPololuBase::setPositionInAbs" /\ pololuAlive /\ InRange(last.arg))
         => ~OutOfRange(last.err)

SetDegOps == { "ServoMotor::setPositionInDeg", "ServoMotorPololu::setPositionInDeg" }
SetRadOps == { "ServoMotor::setPositionInRad", "ServoMotorPololu::setPositionInRad" }

\* The position carried by the set-position command the last call wrote.
WirePosition == last.calls[1].bytes[3] + 128 * last.calls[1].bytes[4]

\* C21 (as claimed): setPositionInDeg fails as out of range without a
\* transport call for a degree outside [-90, 90]; otherwise, on an open
\* connection whose transport works, it sends the position
\* neutral + deg * 10 * 4 (here whenever that is a position the command can
\* carry) and returns deg.
C21_DegreesLinear ==
    (last.op \in SetDegOps /\ pololuAlive)
        => /\ (last.arg < minDeg_ \/ last.arg > maxDeg_)
                => (OutOfRange(last.err) /\ last.calls = <<>>)
           /\ (/\ last.arg >= minDeg_ /\ last.arg <= maxDeg_
               /\ isComPortOpen_ /\ WorkingTransport
               /\ neutralPosition_ + last.arg * conFactorDegToPos * conFactorMyToPos
                     \in 0..16383)
                => /\ last.err = NoErr
                   /\ Len(last.calls) = 1
                   /\ WirePosition
                        = neutralPosition_ + last.arg * conFactorDegToPos * conFactorMyToPos
                   /\ last.ret = last.arg

\* The angle mrad / 1000 in degrees, rounded to the nearest integer, halves
\* away from zero (M_PI as 355/113).
RoundedDeg(mrad) ==
    LET num == (IF mrad < 0 THEN -mrad ELSE mrad) * 180 * 113
        den == 1000 * 355
        mag == (2 * num + den) \div (2 * den)
    IN  IF mrad < 0 THEN -mag ELSE mag

\* What setPositionInDeg of the same class sends for the degree d, as the
\* command carries it.
SentForDeg(op, d) ==
    IF op = "ServoMotor::setPositionInRad"
    THEN { U16(neutralPosition_ + d * conFactorDegToPos * conFactorMyToPos) % 16384 }
    ELSE { q % 16384 : q \in mapDegValue2PosValue(d) }

\* C22 (as claimed): setPositionInRad rounds the angle to the nearest degree,
\* halves away from zero, fails as out of range without a transport call
\* when that degree is outside [-90, 90], and otherwise sends the position
\* setPositionInDeg sends for that degree.
C22_RadiansRounded ==
    (last.op \in SetRadOps /\ pololuAlive)
        => LET d == RoundedDeg(last.arg)
           IN  /\ (d < minDeg_ \/ d > maxDeg_)
                    => (OutOfRange(last.err) /\ last.calls = <<>>)
               /\ (d >= minDeg_ /\ d <= maxDeg_ /\ isComPortOpen_ /\ WorkingTransport)
                    => /\ last.err = NoErr
                       /\ Len(last.calls) = 1
                       /\ WirePosition \in SentForDeg(last.op, d)

\* C23 (as claimed): when the controller reports the position that
\* setPositionInDeg(d) sends, getPositionInDeg of the same class returns d.
C23_DegreesInverse ==
    /\ (last.op = "ServoMotorPololu::getPositionInDeg" /\ last.err = NoErr)
         => \A d \in ReportedDegs :
               last.more[1] \in mapDegValue2PosValue(d) => last.ret = d
    /\ (last.op = "ServoMotor::getPositionInDeg" /\ last.err = NoErr)
         => \A d \in ReportedDegs :
               last.more[1]
                   = U16(neutralPosition_ + d * conFactorDegToPos * conFactorMyToPos)
                 => last.ret = d

\* The calls that reach the connection.
ConnectionCallOps ==
    PololuCommandOps \cup ServoSetPositionOps \cup SpeedOps \cup SetDegOps \cup SetRadOps
    \cup { "ServoMotorPololuBase::getPositionInAbs",
           "ServoMotorPololu::getPositionInDeg", "ServoMotorPololu::getPositionInRad",
           "ServoMotor::getPositionInDeg", "ServoMotor::getPositionInRad" }

\* The cause of the failure of the last call, read off its transport calls:
\* none made, a write that failed, a read that failed, a read that gave
\* another number of bytes than asked.
CauseOfFailure ==
    IF last.calls = <<>> THEN "PortClosed"
    ELSE LET c == last.calls[Len(last.calls)]
         IN  IF c.fn = "write" THEN "WriteFailed"
             ELSE IF c.ret = -1 THEN "ReadFailed"
             ELSE "MalformedResponse"

\* C24 (as claimed): a call that fails at the connection fails with an error
\* that names the cause: the port is closed, the transport failed, or the
\* response had the wrong length.
C24_ErrorKindsKept ==
    (/\ pololuAlive
     /\ last.op \in ConnectionCallOps
     /\ last.err # NoErr /\ ~OutOfRange(last.err))
        => last.err.cause = CauseOfFailure

\* C30 (as claimed): the radians setPositionInRad returns for an angle that
\* rounds to a negative degree, and those getPositionInRad returns when the
\* controller reports the position of a negative degree, are negative (and
\* not below -pi/2, here -1600/1000).
C30_RadiansKeepSign ==
    /\ (/\ last.op = "ServoMotorPololu::setPositionInRad" /\ last.err = NoErr
        /\ RoundedDeg(last.arg) \in minDeg_..(-1))
         => (last.ret < 0 /\ last.ret > -1600)
    /\ (/\ last.op = "ServoMotorPololu::getPositionInRad" /\ last.err = NoErr
        /\ \E d \in ReportedDegs : d < 0 /\ last.more[1] \in mapDegValue2PosValue(d))
         => (last.ret < 0 /\ last.ret > -1600)
====
